---- MODULE Spec2Model ----
(***************************************************************************)
(* De Anza C-ID course equivalency lookup: load_data, smart_search and the *)
(* EquivalencyApp selection handlers of course_equivalency_app_dpg.py.     *)
(*                                                                         *)
(* A Python / polars string is a sequence of one-character strings, so     *)
(* "ACCT 1A" is <<"A","C","C","T"," ","1","A">>.  A null cell of the data  *)
(* frame is the value Null; read_csv gives null for an empty cell.  Search  *)
(* keywords are made of letters, digits and hyphens; for such a keyword    *)
(* the regular expression polars builds from it (str.contains is a regex   *)
(* search) is a literal substring test.                                    *)
(***************************************************************************)
EXTENDS Integers, Sequences, FiniteSets, TLC

VARIABLES
    file,             \* the cid.csv on disk that load_data reads
    pc,               \* position of the driver: "start", "constructed", "running"
    df,               \* self.df / the frame load_data returned (Null when unset)
    load_error,       \* self.load_error (Null when the load succeeded)
    de_anza_courses,  \* self.de_anza_courses (NoFrame when unset)
    selected_dept,    \* self.selected_dept
    selected_course,  \* self.selected_course
    current_results,  \* self.current_results (NoFrame when unset)
    results_count,    \* the text of the "results_count" status line
    table,            \* the rows of the "results_table" widget
    dept_items,       \* the items of the "dept_listbox" widget
    course_items,     \* the items of the "course_listbox" widget
    info,             \* the texts of "selected_dept_info" and "selected_course_info"
    course_numbers,   \* self._course_display_to_number: display -> first number
    found             \* the call of smart_search that has returned: its query and its value

vars == <<file, pc, df, load_error, de_anza_courses, selected_dept, selected_course,
          current_results, results_count, table, dept_items, course_items, info,
          course_numbers, found>>

(***************************************************************************)
(* Characters and strings                                                  *)
(***************************************************************************)
Null == <<"NULL">>

UpperLetters == <<"A","B","C","D","E","F","G","H","I","J","K","L","M",
                  "N","O","P","Q","R","S","T","U","V","W","X","Y","Z">>

LowerLetters == <<"a","b","c","d","e","f","g","h","i","j","k","l","m",
                  "n","o","p","q","r","s","t","u","v","w","x","y","z">>

Digits == <<"0","1","2","3","4","5","6","7","8","9">>

\* the characters of the model in code-point order (what Python compares by)
Alphabet == <<" ", "(", ")", "+", "-", ".">> \o Digits \o <<":">> \o UpperLetters
            \o LowerLetters

Range(s) == {s[i] : i \in 1..Len(s)}

UpperSet == Range(UpperLetters)

LowerSet == Range(LowerLetters)

DigitSet == Range(Digits)

Ord == [c \in Range(Alphabet) |-> CHOOSE i \in 1..Len(Alphabet) : Alphabet[i] = c]

UpperChar == [c \in Range(Alphabet) |->
                 IF c \in LowerSet
                 THEN UpperLetters[CHOOSE i \in 1..26 : LowerLetters[i] = c]
                 ELSE c]

DigitValue == [c \in DigitSet |-> (CHOOSE i \in 1..10 : Digits[i] = c) - 1]

IsSpace(c) == c = " "

\* \w of the regex dialect, over the model's characters
IsWordChar(c) == c \in UpperSet \cup LowerSet \cup DigitSet

\* str.upper() / str.to_uppercase()
Upper(s) == [i \in 1..Len(s) |-> UpperChar[s[i]]]

\* fill_null("")
FillNull(s) == IF s = Null THEN <<>> ELSE s

RECURSIVE LStrip(_)
LStrip(s) == IF s # <<>> /\ IsSpace(Head(s)) THEN LStrip(Tail(s)) ELSE s

RECURSIVE RStrip(_)
RStrip(s) == IF s # <<>> /\ IsSpace(s[Len(s)]) THEN RStrip(SubSeq(s, 1, Len(s) - 1))
             ELSE s

\* str.strip() / str.strip_chars()
Strip(s) == RStrip(LStrip(s))

\* k occurs in s at position i
MatchAt(s, k, i) == /\ i + Len(k) - 1 <= Len(s)
                    /\ \A j \in 1..Len(k) : s[i + j - 1] = k[j]

\* str.starts_with(k)
StartsWith(s, k) == MatchAt(s, k, 1)

\* str.contains(k) for a keyword k of letters and digits
Contains(s, k) == \E i \in 1..(Len(s) - Len(k) + 1) : MatchAt(s, k, i)

\* str.contains(rf"\b{re.escape(k)}") for a keyword k that starts with a word character
ContainsAtWordStart(s, k) ==
    \E i \in 1..(Len(s) - Len(k) + 1) :
        /\ MatchAt(s, k, i)
        /\ (i = 1 \/ ~IsWordChar(s[i - 1]))

\* the length of the longest prefix of s whose characters all satisfy the class cls
RECURSIVE RunLength(_, _)
RunLength(s, cls) == IF s # <<>> /\ Head(s) \in cls THEN 1 + RunLength(Tail(s), cls)
                     ELSE 0

Drop(s, n) == SubSeq(s, n + 1, Len(s))

Take(s, n) == SubSeq(s, 1, n)

\* str.split(): the maximal runs of non-whitespace characters
RECURSIVE Split(_)
Split(s) ==
    LET t == LStrip(s)
        n == RunLength(t, Range(Alphabet) \ {" "})
    IN  IF t = <<>> THEN <<>> ELSE <<Take(t, n)>> \o Split(Drop(t, n))

\* str.replace_all(r"\s+", " ")
RECURSIVE CollapseSpaces(_)
CollapseSpaces(s) ==
    IF s = <<>> THEN <<>>
    ELSE IF IsSpace(Head(s))
         THEN <<" ">> \o CollapseSpaces(Drop(s, RunLength(s, {" "})))
         ELSE <<Head(s)>> \o CollapseSpaces(Tail(s))

(***************************************************************************)
(* Program constants                                                       *)
(***************************************************************************)
HOME_INSTITUTION == <<"D","e"," ","A","n","z","a"," ","C","o","l","l","e","g","e">>

REQUIRED_COLS == <<"C-ID #", "C-ID Descriptor", "Institution",
                   "Local Course Title(s)", "Local Dept. Name & Number">>

MIN_SEARCH_CHARS == 2

\* the 10 of "title_count < dept_count * 10"
TitleRatio == 10

\* the {2,5} of dept_pattern and of cid_pattern
MinDeptLetters == 2

MaxDeptLetters == 5

common_words == { <<"D","E">>, <<"L","A">>, <<"O","F">>, <<"A","N","D">>,
                  <<"T","H","E">>, <<"F","O","R">>, <<"I","N">>, <<"O","N">>,
                  <<"A","T">>, <<"T","O">>, <<"A">>, <<"A","N">> }

(***************************************************************************)
(* load_data                                                               *)
(***************************************************************************)
\* the three columns load_data adds to a row of the file
WithNormColumns(r) ==
    [cid |-> r.cid, descriptor |-> r.descriptor, institution |-> r.institution,
     local_dept |-> r.local_dept, local_title |-> r.local_title,
     Institution_norm |-> Upper(FillNull(r.institution)),
     Dept_norm |-> CollapseSpaces(Upper(FillNull(r.local_dept))),
     Title_norm |-> Upper(FillNull(r.local_title))]

\* the CidCsvError raised with the "Missing: ..." message
MissingColumnsError(f) ==
    [kind |-> "missing_columns",
     missing |-> SelectSeq(REQUIRED_COLS, LAMBDA c : c \notin f.columns),
     required |-> REQUIRED_COLS]

\* load_data with the column check moved before the emptiness check
load_data_ColumnsFirst(f) ==
    IF ~f.exists
    THEN [ok |-> FALSE, error |-> [kind |-> "not_found", missing |-> <<>>, required |-> <<>>]]
    ELSE IF ~f.parses
    THEN [ok |-> FALSE, error |-> [kind |-> "unreadable", missing |-> <<>>, required |-> <<>>]]
    ELSE IF \E i \in 1..Len(REQUIRED_COLS) : REQUIRED_COLS[i] \notin f.columns
    THEN [ok |-> FALSE, error |-> MissingColumnsError(f)]
    ELSE IF Len(f.rows) = 0
    THEN [ok |-> FALSE, error |-> [kind |-> "empty", missing |-> <<>>, required |-> <<>>]]
    ELSE [ok |-> TRUE, df |-> [i \in 1..Len(f.rows) |-> WithNormColumns(f.rows[i])]]

\* load_data(path): the frame it returns, or the CidCsvError it raises
load_data(f) ==
    IF ~f.exists
    THEN [ok |-> FALSE, error |-> [kind |-> "not_found", missing |-> <<>>, required |-> <<>>]]
    ELSE IF ~f.parses
    THEN [ok |-> FALSE, error |-> [kind |-> "unreadable", missing |-> <<>>, required |-> <<>>]]
    ELSE IF Len(f.rows) = 0
    THEN [ok |-> FALSE, error |-> [kind |-> "empty", missing |-> <<>>, required |-> <<>>]]
    ELSE IF \E i \in 1..Len(REQUIRED_COLS) : REQUIRED_COLS[i] \notin f.columns
    THEN [ok |-> FALSE, error |-> MissingColumnsError(f)]
    ELSE [ok |-> TRUE, df |-> [i \in 1..Len(f.rows) |-> WithNormColumns(f.rows[i])]]

(***************************************************************************)
(* smart_search                                                            *)
(***************************************************************************)
\* is_de_anza: Institution_norm contains HOME_INSTITUTION.upper()
is_de_anza(row) == Contains(row.Institution_norm, Upper(HOME_INSTITUTION))

\* pl.concat([de_anza_rows, other_rows]), or de_anza_rows when there are no others
DeAnzaFirst(rows) ==
    SelectSeq(rows, is_de_anza) \o SelectSeq(rows, LAMBDA r : ~is_de_anza(r))

\* cid_pattern with a separator class that leaves the hyphen out
cid_pattern_SpacesOnly(q) ==
    LET nLetters == RunLength(q, UpperSet)
        afterDept == Drop(q, nLetters)
        nSep == RunLength(afterDept, {" "})
        afterSep == Drop(afterDept, nSep)
        nDigits == RunLength(afterSep, DigitSet)
        afterDigits == Drop(afterSep, nDigits)
        nSuffix == IF afterDigits # <<>> /\ Head(afterDigits) \in UpperSet THEN 1 ELSE 0
    IN  [matched |-> /\ nLetters >= MinDeptLetters
                     /\ nLetters <= MaxDeptLetters
                     /\ nSep >= 1
                     /\ nDigits >= 1,
         dept_code |-> Take(q, nLetters),
         cid_number |-> Take(afterSep, nDigits + nSuffix),
         extra |-> Strip(Drop(afterSep, nDigits + nSuffix))]

\* re.match(r'^([A-Z]{2,5})[\s-]+(\d+[A-Z]?)\s*(.*)$', q): each quantifier is greedy
\* and no later part can fail once a digit is found, so the groups are the maximal runs
cid_pattern(q) ==
    LET nLetters == RunLength(q, UpperSet)
        afterDept == Drop(q, nLetters)
        nSep == RunLength(afterDept, {" ", "-"})
        afterSep == Drop(afterDept, nSep)
        nDigits == RunLength(afterSep, DigitSet)
        afterDigits == Drop(afterSep, nDigits)
        nSuffix == IF afterDigits # <<>> /\ Head(afterDigits) \in UpperSet THEN 1 ELSE 0
    IN  [matched |-> /\ nLetters >= MinDeptLetters
                     /\ nLetters <= MaxDeptLetters
                     /\ nSep >= 1
                     /\ nDigits >= 1,
         dept_code |-> Take(q, nLetters),
         cid_number |-> Take(afterSep, nDigits + nSuffix),
         extra |-> Strip(Drop(afterSep, nDigits + nSuffix))]

\* the rows whose C-ID # contains "DEPT NUMBER"
cid_results(d, q) ==
    LET m == cid_pattern(Upper(q))
        cid_query == m.dept_code \o <<" ">> \o m.cid_number
    IN  SelectSeq(d, LAMBDA r : Contains(Upper(FillNull(r.cid)), cid_query))

\* InstOrTitleTest that looks at the title alone
InstOrTitleTest_TitleOnly(r, kw) == Contains(r.Title_norm, kw)

InstOrTitleTest(r, kw) == Contains(r.Institution_norm, kw) \/ Contains(r.Title_norm, kw)

InstTest(r, kw) == Contains(r.Institution_norm, kw)

DeptTest(r, kw) == ContainsAtWordStart(r.Dept_norm, kw)

TitleTest(r, kw) == Contains(r.Title_norm, kw)

\* the filter expression of one keyword, by the column(s) it is matched against
KeywordTest(r, kw, column) ==
    CASE column = "institution_or_title" -> InstOrTitleTest(r, kw)
      [] column = "institution" -> InstTest(r, kw)
      [] column = "dept" -> DeptTest(r, kw)
      [] column = "title" -> TitleTest(r, kw)

\* the rows left by "for kw in kws: rows = rows.filter(...)": a row survives the
\* successive filters exactly when it passes each of them
FilterAll(rows, kws, column) ==
    SelectSeq(rows, LAMBDA r : \A i \in 1..Len(kws) : KeywordTest(r, kws[i], column))

\* the C-ID fast path took the return at line 139
FastPathReturns(d, q) == cid_pattern(Upper(q)).matched /\ cid_results(d, q) # <<>>

\* the value returned at line 139
FastPathResult(d, q) ==
    DeAnzaFirst(FilterAll(cid_results(d, q), Split(cid_pattern(Upper(q)).extra),
                          "institution_or_title"))

\* keywords that stops after the second word of the query
keywords_FirstTwo(q) ==
    IF Len(Split(Upper(q))) > 2 THEN SubSeq(Split(Upper(q)), 1, 2) ELSE Split(Upper(q))

keywords(q) == Split(Upper(q))

institution_keywords(d, q) ==
    SelectSeq(keywords(q), LAMBDA kw : \E i \in 1..Len(d) : InstTest(d[i], kw))

non_institution_keywords(d, q) ==
    SelectSeq(keywords(q), LAMBDA kw : ~\E i \in 1..Len(d) : InstTest(d[i], kw))

\* InstitutionFiltered where a row need pass only one of the institution keywords
InstitutionFiltered_AnyKeyword(d, q) ==
    SelectSeq(d, LAMBDA r : \/ institution_keywords(d, q) = <<>>
                            \/ \E i \in 1..Len(institution_keywords(d, q)) :
                                   InstTest(r, institution_keywords(d, q)[i]))

\* results after "Apply institution filters"
InstitutionFiltered(d, q) == FilterAll(d, institution_keywords(d, q), "institution")

dept_pattern(kw) == /\ Len(kw) >= MinDeptLetters
                    /\ Len(kw) <= MaxDeptLetters
                    /\ \A i \in 1..Len(kw) : kw[i] \in UpperSet

dept_count(rows, kw) == Len(SelectSeq(rows, LAMBDA r : DeptTest(r, kw)))

title_count(rows, kw) == Len(SelectSeq(rows, LAMBDA r : TitleTest(r, kw)))

\* Classify with <= in place of < in the ratio test
Classify_RatioInclusive(rows, kw) ==
    IF dept_pattern(kw) /\ kw \notin common_words
    THEN IF dept_count(rows, kw) > 0
            /\ title_count(rows, kw) <= dept_count(rows, kw) * TitleRatio
         THEN "dept"
         ELSE IF title_count(rows, kw) > 0 THEN "title" ELSE "none"
    ELSE "title"

\* the branch of lines 168-177 a keyword takes: "dept", "title" or "none"
Classify(rows, kw) ==
    IF dept_pattern(kw) /\ kw \notin common_words
    THEN IF dept_count(rows, kw) > 0
            /\ title_count(rows, kw) < dept_count(rows, kw) * TitleRatio
         THEN "dept"
         ELSE IF title_count(rows, kw) > 0 THEN "title" ELSE "none"
    ELSE "title"

dept_keywords(d, q) ==
    LET results == InstitutionFiltered(d, q)
    IN  SelectSeq(non_institution_keywords(d, q),
                  LAMBDA kw : Classify(results, kw) = "dept")

title_keywords(d, q) ==
    LET results == InstitutionFiltered(d, q)
    IN  SelectSeq(non_institution_keywords(d, q),
                  LAMBDA kw : Classify(results, kw) = "title")

\* results after "Apply filters"
Filtered(d, q) ==
    FilterAll(FilterAll(InstitutionFiltered(d, q), dept_keywords(d, q), "dept"),
              title_keywords(d, q), "title")

\* pl.col("C-ID #").is_in(cids): a null cell is in no list
IsInCids(r, cids) == r.cid # Null /\ r.cid \in cids

\* Expanded without the return to the full dataset
Expanded_FilteredOnly(d, q) == DeAnzaFirst(Filtered(d, q))

\* all_results, De Anza first
Expanded(d, q) ==
    LET f == Filtered(d, q)
        cids == {f[i].cid : i \in 1..Len(f)}
    IN  DeAnzaFirst(SelectSeq(d, LAMBDA r : IsInCids(r, cids)))

\* results.unique(subset=the five columns): one row per distinct value, and, as
\* maintain_order is left False, in whatever order the group-by produces
Unique(rows) ==
    LET S == Range(rows)
        n == Cardinality(S)
    IN  {p \in [1..n -> S] : \A i, j \in 1..n : i # j => p[i] # p[j]}

\* what a call leaves behind: the return taken, the value returned and the keyword
\* lists as they stand at the return
Returned(path, rows, inst, dept, title) ==
    [path |-> path, rows |-> rows, institution_keywords |-> inst,
     dept_keywords |-> dept, title_keywords |-> title]

\* the values the general path (lines 141-203) can return for the stripped query q
general_path(d, q) ==
    LET inst == institution_keywords(d, q)
        dept == dept_keywords(d, q)
        title == title_keywords(d, q)
    IN  IF Filtered(d, q) = <<>>
        THEN {Returned("empty", <<>>, inst, dept, title)}
        ELSE IF inst # <<>>
        THEN {Returned("institution", p, inst, dept, title) : p \in Unique(Filtered(d, q))}
        ELSE {Returned("expanded", p, inst, dept, title) : p \in Unique(Expanded(d, q))}

\* the values smart_search(df, query) can return
smart_search(d, query) ==
    LET q == Strip(query)
    IN  IF Len(q) < MIN_SEARCH_CHARS
        THEN {Returned("short", <<>>, <<>>, <<>>, <<>>)}
        ELSE IF FastPathReturns(d, q)
        THEN {Returned("cid", FastPathResult(d, q), <<>>, <<>>, <<>>)}
        ELSE general_path(d, q)

(***************************************************************************)
(* EquivalencyApp: the De Anza course index                                *)
(***************************************************************************)
MAX_DISPLAY_RESULTS == 2000

MAX_TITLE_LEN == 40

\* a frame-valued attribute: None, or a DataFrame with its rows
NoFrame == [set |-> FALSE, rows |-> <<>>]

Frame(rows) == [set |-> TRUE, rows |-> rows]

NoError == [kind |-> "none", missing |-> <<>>, required |-> <<>>]

\* the literal "DE ANZA" of load_de_anza_courses
DE_ANZA == <<"D","E"," ","A","N","Z","A">>

\* the groups of r'^([A-Z\s]+?)\s+([0-9].*)$' on s.  Group 1 and the \s+ hold only
\* capitals and whitespace, so the first character outside that class must be the
\* digit that opens group 2, preceded by whitespace; group 1 is lazy, so it ends at
\* the last capital before that whitespace (or is the first character when there is
\* no capital)
DeptNumberGroups(s) ==
    LET p == RunLength(s, UpperSet \cup {" "})
        lead == Take(s, p)
        g == Len(RStrip(lead))
    IN  IF /\ p >= 2
           /\ p < Len(s)
           /\ s[p + 1] \in DigitSet
           /\ IsSpace(s[p])
        THEN [matched |-> TRUE,
              dept |-> Take(s, IF g = 0 THEN 1 ELSE g),
              number |-> Drop(s, p)]
        ELSE [matched |-> FALSE, dept |-> <<>>, number |-> <<>>]

\* str.extract(pattern, 1).fill_null("").str.strip_chars() on the raw column
DeptColumn(r) ==
    IF r.local_dept = Null THEN <<>> ELSE Strip(DeptNumberGroups(r.local_dept).dept)

\* str.extract(pattern, 2).fill_null("").str.strip_chars()
NumberColumn(r) ==
    IF r.local_dept = Null THEN <<>> ELSE Strip(DeptNumberGroups(r.local_dept).number)

WithDeptNumber(r) ==
    [cid |-> r.cid, descriptor |-> r.descriptor, institution |-> r.institution,
     local_dept |-> r.local_dept, local_title |-> r.local_title,
     Institution_norm |-> r.Institution_norm, Dept_norm |-> r.Dept_norm,
     Title_norm |-> r.Title_norm, Dept |-> DeptColumn(r), Number |-> NumberColumn(r)]

\* the frame load_de_anza_courses stores in self.de_anza_courses
load_de_anza_courses(d) ==
    LET home == SelectSeq(d, LAMBDA r : /\ r.institution # Null
                                        /\ Contains(Upper(r.institution), DE_ANZA))
        withCid == SelectSeq(home, LAMBDA r : r.cid # Null /\ r.cid # <<>>)
        cols == [i \in 1..Len(withCid) |-> WithDeptNumber(withCid[i])]
    IN  SelectSeq(cols, LAMBDA r : r.Dept # <<>> /\ r.Number # <<>>)

\* a < b for Python strings: by code point, a proper prefix first
RECURSIVE StrLess(_, _)
StrLess(a, b) ==
    IF b = <<>> THEN FALSE
    ELSE IF a = <<>> THEN TRUE
    ELSE IF Head(a) = Head(b) THEN StrLess(Tail(a), Tail(b))
    ELSE Ord[Head(a)] < Ord[Head(b)]

\* the first occurrences of a sequence's values, in order (dict keys, insertion order)
RECURSIVE FirstOccurrences(_)
FirstOccurrences(s) ==
    IF s = <<>> THEN <<>>
    ELSE LET init == FirstOccurrences(Take(s, Len(s) - 1))
         IN  IF s[Len(s)] \in Range(init) THEN init ELSE Append(init, s[Len(s)])

\* the position of the first occurrence of k in s, or 0
FindFirst(s, k) ==
    IF Contains(s, k) THEN CHOOSE i \in 1..Len(s) :
                               /\ MatchAt(s, k, i)
                               /\ \A j \in 1..(i - 1) : ~MatchAt(s, k, j)
    ELSE 0

\* s.split(k)[0]
BeforeFirst(s, k) == IF FindFirst(s, k) = 0 THEN s ELSE Take(s, FindFirst(s, k) - 1)

\* _first_course_number: '6A + BIOL 6C' -> '6A'
first_course_number(number_str) ==
    IF number_str = <<>> THEN <<>> ELSE Strip(BeforeFirst(number_str, <<"+">>))

\* int(digits) for a run of decimal digits
RECURSIVE ParseInt(_)
ParseInt(ds) ==
    IF ds = <<>> THEN 0 ELSE 10 * ParseInt(Take(ds, Len(ds) - 1)) + DigitValue[ds[Len(ds)]]

\* _natural_sort_key: (leading digit run as an int, or 0; the stripped rest)
natural_sort_key(str) ==
    LET s == Strip(str)
        i == RunLength(s, DigitSet)
    IN  [num |-> ParseInt(Take(s, i)), suffix |-> Strip(Drop(s, i))]

\* NaturalLess comparing the numbers as plain text
NaturalLess_Lexical(a, b) == StrLess(a, b)

\* comparison of the key tuples
NaturalLess(a, b) ==
    LET ka == natural_sort_key(a)
        kb == natural_sort_key(b)
    IN  \/ ka.num < kb.num
        \/ (ka.num = kb.num /\ StrLess(ka.suffix, kb.suffix))

\* a precedes b in the order of a sort: of the natural keys, or of the plain strings
KeyLess(a, b, order) == IF order = "natural" THEN NaturalLess(a, b) ELSE StrLess(a, b)

\* sorted(s, key=...) and Series.sort(): ascending, equal keys in their original order
StableSort(s, order) ==
    LET n == Len(s)
        rank(i) == 1 + Cardinality({j \in 1..n : \/ KeyLess(s[j], s[i], order)
                                                 \/ (~KeyLess(s[i], s[j], order) /\ j < i)})
    IN  [k \in 1..n |-> s[CHOOSE i \in 1..n : rank(i) = k]]

\* self.de_anza_courses["Dept"].unique().sort().to_list()
populate_departments(courses) ==
    StableSort(FirstOccurrences([i \in 1..Len(courses) |-> courses[i].Dept]), "plain")

\* the rows of self.de_anza_courses of one department
dept_courses(courses, department) == SelectSeq(courses, LAMBDA r : r.Dept = department)

\* title[:MAX_TITLE_LEN] + ("..." if len(title) > MAX_TITLE_LEN else "")
ShortTitle(title) ==
    IF Len(title) > MAX_TITLE_LEN THEN Take(title, MAX_TITLE_LEN) \o <<".", ".", ".">>
    ELSE title

\* the listbox line of a course: "6A (BIOL 190) :: Title", with the empty parts left out
DisplayString(first_num, row) ==
    LET short == ShortTitle(Strip(FillNull(row.local_title)))
        cid == Strip(FillNull(row.cid))
        head == IF cid # <<>> THEN first_num \o <<" ", "(">> \o cid \o <<")">>
                ELSE first_num
    IN  IF short # <<>> THEN head \o <<" ", ":", ":", " ">> \o short ELSE head

\* sorted(seen.keys(), key=self._natural_sort_key): the distinct first numbers of a
\* department, none empty, in natural order
sorted_nums(courses, department) ==
    LET rows == dept_courses(courses, department)
        firsts == [i \in 1..Len(rows) |-> first_course_number(rows[i].Number)]
    IN  StableSort(FirstOccurrences(SelectSeq(firsts, LAMBDA n : n # <<>>)), "natural")

\* seen[n][0]: the display string of the first row of the department whose first number is n
SeenDisplay(courses, department, n) ==
    LET rows == dept_courses(courses, department)
        i == CHOOSE k \in 1..Len(rows) :
                 /\ first_course_number(rows[k].Number) = n
                 /\ \A j \in 1..(k - 1) : first_course_number(rows[j].Number) # n
    IN  DisplayString(n, rows[i])

\* course_items of populate_courses: the blank "all courses" entry, then one line per number
populate_courses(courses, department) ==
    LET nums == sorted_nums(courses, department)
    IN  <<  <<>>  >> \o [k \in 1..Len(nums) |-> SeenDisplay(courses, department, nums[k])]

\* self._course_display_to_number[display][0]: a later number overwrites an earlier
\* one that has the same display string
course_display_to_number(courses, department) ==
    LET nums == sorted_nums(courses, department)
        shown == {SeenDisplay(courses, department, nums[k]) : k \in 1..Len(nums)}
        last(d) == CHOOSE k \in 1..Len(nums) :
                       /\ SeenDisplay(courses, department, nums[k]) = d
                       /\ \A j \in (k + 1)..Len(nums) :
                              SeenDisplay(courses, department, nums[j]) # d
    IN  [d \in shown \cup {<<>>} |-> IF d = <<>> THEN <<>> ELSE nums[last(d)]]

(***************************************************************************)
(* EquivalencyApp: result sets and the widgets that show them              *)
(***************************************************************************)
\* a text of the "results_count" line
Status(text) == [kind |-> text, cids |-> 0, courses |-> 0, error |-> NoError]

READY == Status("Ready - Select a department and course")

\* f'Found {len(unique_cids)} C-ID(s), {total_rows} course(s)'
FoundStatus(rows) ==
    [kind |-> IF Len(rows) > MAX_DISPLAY_RESULTS THEN "Found - Showing first"
              ELSE "Found",
     cids |-> Cardinality({rows[i].cid : i \in 1..Len(rows)}),
     courses |-> Len(rows),
     error |-> NoError]

\* extract_dept_and_number(course_str)
extract_dept_and_number(course_str) ==
    LET m == DeptNumberGroups(Strip(course_str))
    IN  IF course_str = <<>> THEN [dept |-> <<>>, number |-> <<>>]
        ELSE IF m.matched THEN [dept |-> Strip(m.dept), number |-> Strip(m.number)]
        ELSE [dept |-> <<>>, number |-> course_str]

\* the cells display_results adds for one row, and whether they get the De Anza theme
TableRow(r) ==
    LET school == Strip(FillNull(r.institution))
        dn == extract_dept_and_number(Strip(FillNull(r.local_dept)))
    IN  [cid |-> Strip(FillNull(r.cid)), school |-> school, dept |-> dn.dept,
         number |-> dn.number, title |-> Strip(FillNull(r.local_title)),
         de_anza |-> Contains(Upper(school), Upper(HOME_INSTITUTION))]

\* the rows display_results leaves in the table
display_results(rows) ==
    LET shown == IF Len(rows) > MAX_DISPLAY_RESULTS THEN Take(rows, MAX_DISPLAY_RESULTS)
                 ELSE rows
    IN  [i \in 1..Len(shown) |-> TableRow(shown[i])]

\* self.df.filter(pl.col("C-ID #").is_in(cids)), without the columns Dept and Number
RowsWithCids(d, cids) == SelectSeq(d, LAMBDA r : IsInCids(r, cids))

CidsOf(rows) == {rows[i].cid : i \in 1..Len(rows)}

\* what a handler leaves in (self.current_results, results_count, results_table)
Shown(results, status, rows) ==
    [current_results |-> results, results_count |-> status, table |-> rows]

\* show_department_courses(department)
show_department_courses(department) ==
    IF ~de_anza_courses.set THEN Shown(current_results, results_count, table)
    ELSE LET matched == dept_courses(de_anza_courses.rows, department)
             result_df == RowsWithCids(df.rows, CidsOf(matched))
         IN  IF matched = <<>>
             THEN Shown(current_results, Status("No courses found for this department"),
                        <<>>)
             ELSE IF result_df = <<>>
             THEN Shown(current_results, Status("No courses found"), <<>>)
             ELSE Shown(Frame(result_df), FoundStatus(result_df),
                        display_results(result_df))

\* number_match accepting any number that starts with course_number
number_match_AnyPrefix(r, course_number) ==
    \/ r.Number = course_number
    \/ StartsWith(r.Number, course_number)

\* number_match of show_equivalencies
number_match(r, course_number) ==
    \/ r.Number = course_number
    \/ StartsWith(r.Number, course_number \o <<" ">>)
    \/ StartsWith(r.Number, course_number \o <<"+">>)

\* de_anza_course of show_equivalencies
de_anza_course(courses, department, course_number) ==
    SelectSeq(courses, LAMBDA r : r.Dept = department /\ number_match(r, course_number))

\* show_equivalencies(department, course_number); "cids[0]" is any element of the
\* unordered unique(), and no row of self.de_anza_courses has an empty C-ID
show_equivalencies(department, course_number) ==
    IF ~df.set \/ ~de_anza_courses.set THEN Shown(current_results, results_count, table)
    ELSE LET matched == de_anza_course(de_anza_courses.rows, department, course_number)
             result_df == RowsWithCids(df.rows, CidsOf(matched))
         IN  IF matched = <<>>
             THEN Shown(current_results, Status("Course not found"), <<>>)
             ELSE IF <<>> \in CidsOf(matched)
             THEN Shown(current_results, Status("No CID found for this course"), <<>>)
             ELSE IF result_df = <<>>
             THEN Shown(current_results, Status("No equivalent courses found"), <<>>)
             ELSE Shown(Frame(result_df), FoundStatus(result_df),
                        display_results(result_df))

\* the course number on_course_selected resolves a listbox line to
ResolveCourseNumber(app_data) ==
    IF app_data \in DOMAIN course_numbers /\ DOMAIN course_numbers # {}
    THEN course_numbers[app_data]
    ELSE Strip(BeforeFirst(app_data, <<" ", ":", ":", " ">>))

(***************************************************************************)
(* Bounds and inputs                                                       *)
(***************************************************************************)
\* rows of a general dataset of the search driver
MaxRows == 3

\* copies of the title row in a dataset of the classifier's ratio test
MaxTitleRows == 50

\* rows of a general dataset of the application
MaxAppRows == 2

\* courses of a one-department dataset of the application
MaxCourses == 2

DeAnzaCollege == HOME_INSTITUTION

FoothillCollege == <<"F","o","o","t","h","i","l","l"," ","C","o","l","l","e","g","e">>

RawRow(cid, institution, local_dept, local_title) ==
    [cid |-> cid, descriptor |-> cid, institution |-> institution,
     local_dept |-> local_dept, local_title |-> local_title]

RowA == RawRow(<<"A","C","C","T"," ","1","1","0">>, DeAnzaCollege, <<"A","C","C","T"," ","1","A">>, <<"A","c","c","o","u","n","t","i","n","g">>)

RowB == RawRow(<<"A","C","C","T"," ","1","1","0">>, FoothillCollege, <<"A","C","T","G"," ","1">>, <<"A","c","c","o","u","n","t","i","n","g">>)

RowC == RawRow(Null, FoothillCollege, <<"A","R","T"," ","1">>, <<"D","r","a","w","i","n","g">>)

RowD == RawRow(<<"A","R","T","H"," ","1","0","0">>, DeAnzaCollege, <<"H","I","S","T"," ","2">>, <<"A","r","t"," ","H","i","s","t","o","r","y">>)

\* an accounting course of De Anza that has no C-ID
RowE == RawRow(Null, DeAnzaCollege, <<"A","C","C","T"," ","1","B">>, <<"A","c","c","o","u","n","t","i","n","g">>)

\* the sequences over S of length 1..n
SeqsUpTo(S, n) == UNION {[1..k -> S] : k \in 1..n}

\* one row where ART is a department code, t rows where it is a piece of the title
RatioDataset(t) == <<RowC>> \o [i \in 1..t |-> RowD]

SearchDatasets ==
    SeqsUpTo({RowA, RowB, RowC, RowD, RowE}, MaxRows) \cup {RatioDataset(t) : t \in 0..MaxTitleRows}

Queries == { <<"A","C","C","T"," ","1","1","0">>,
             <<"a","c","c","t","-","1","1","0">>,
             <<"A","C","C","T"," "," ","1","1","0">>,
             <<"A","c","c","t"," ","-"," ","1","1","0"," ","f","o","o","t","h","i","l","l">>,
             <<"A","C","C","T">>, <<"A","R","T">>, <<"Z","Z","Z">>, <<"A">>,
             <<"f","o","o","t","h","i","l","l"," ","z","z","z">>,
             <<"a","c","c","o","u","n","t","i","n","g">>,
             <<"c","o","l","l","e","g","e">>, <<"a","r","t"," ","1","0","0">>,
             <<"f","o","o","t","h","i","l","l"," ","a","n","z","a">>,
             <<"a","c","c","t"," ","1","1","0"," ","z","z","z">>,
             <<"a","c","c","o","u","n","t","i","n","g"," ","f","o","o","t","h","i","l","l"," ","a","c","t","g">>,
             <<"1","0","0"," ","a","r","t">> }

H1 == RawRow(<<"B","I","O","L"," ","1","9","0">>, DeAnzaCollege, <<"B","I","O","L"," ","6","A"," ","+"," ","B","I","O","L"," ","6","C">>, <<"C","e","l","l"," ","B","i","o","l","o","g","y">>)

H2 == RawRow(<<"B","I","O","L"," ","1","4","0">>, DeAnzaCollege, <<"B","I","O","L"," ","6","A","B">>, <<"E","c","o","l","o","g","y">>)

H3 == RawRow(<<"B","I","O","L"," ","1","1","0">>, DeAnzaCollege, <<"B","I","O","L"," ","1","6","A">>, <<"B","o","t","a","n","y">>)

H4 == RawRow(<<"B","I","O","L"," ","1","9","0">>, DeAnzaCollege, <<"B","I","O","L"," ","6","A","+","6","C">>, <<"C","e","l","l"," ","B","i","o","l","o","g","y">>)

H5 == RawRow(<<"B","I","O","L"," ","1","9","0">>, DeAnzaCollege, <<"B","I","O","L"," ","6","A">>, <<"E","c","o","l","o","g","y">>)

\* a De Anza course that has no C-ID
H6 == RawRow(Null, DeAnzaCollege, <<"B","I","O","L"," ","6","A">>, <<"Z","o","o","l","o","g","y">>)

F1 == RawRow(<<"B","I","O","L"," ","1","9","0">>, FoothillCollege, <<"B","I","O"," ","1">>, <<"B","i","o","l","o","g","y">>)

BiologyDataset == <<F1, H1, H2, H3, H4, H5, H6>>

CourseNumbers == { <<"1","0">>, <<"1","A">>, <<"2">>, <<"1">>, <<"4","0","A">>, <<"6","A">> }

MathRow(number) == RawRow(<<"M","A","T","H"," ","1">>, DeAnzaCollege, <<"M","A","T","H"," ">> \o number, <<"C","a","l","c","u","l","u","s">>)

MathExample == <<<<"1","0">>, <<"1","A">>, <<"2">>, <<"1">>, <<"4","0","A">>, <<"6","A">>>>

MathDatasets ==
    {[i \in 1..Len(ns) |-> MathRow(ns[i])] : ns \in SeqsUpTo(CourseNumbers, MaxCourses) \cup {MathExample}}

AppDatasets == SeqsUpTo({H1, H2, H6, F1}, MaxAppRows) \cup MathDatasets \cup {BiologyDataset}

AllColumns == Range(REQUIRED_COLS)

\* a cid.csv: whether it is there, whether it parses as CSV, its header and its data
\* rows (a row's cells under the columns the header lacks are never read)
CsvFile(exists, parses, columns, rows) ==
    [exists |-> exists, parses |-> parses, columns |-> columns, rows |-> rows]

GoodFile(rows) == CsvFile(TRUE, TRUE, AllColumns \cup {"Notes"}, rows)

BadFiles ==
    {CsvFile(FALSE, FALSE, {}, <<>>), CsvFile(TRUE, FALSE, {}, <<>>)}
    \cup {CsvFile(TRUE, TRUE, cols, rows) : cols \in (SUBSET AllColumns) \ {AllColumns},
                                           rows \in {<<>>, <<H1>>}}
    \cup {CsvFile(TRUE, TRUE, AllColumns, <<>>)}

AppFiles == {GoodFile(rows) : rows \in AppDatasets} \cup BadFiles

SearchFiles == {GoodFile(rows) : rows \in SearchDatasets}
                   \cup {CsvFile(TRUE, TRUE, AllColumns, <<>>)}

\* a department and listbox lines that no listbox offers
OtherDept == <<"Z","Z">>

OtherCourses == { <<"6","A">>, <<"6">>, <<"6"," ",":",":"," ","E","c","o","l","o","g","y">> }

(***************************************************************************)
(* The application: EquivalencyApp.__init__, run and the widget callbacks  *)
(***************************************************************************)
NoSearch == [query |-> Null, path |-> "none", rows |-> <<>>,
             institution_keywords |-> <<>>, dept_keywords |-> <<>>,
             title_keywords |-> <<>>]

NoneText == <<"N","o","n","e">>

AllCoursesText == <<"(","A","l","l"," ","c","o","u","r","s","e","s",")">>

Unbuilt == [kind |-> "", cids |-> 0, courses |-> 0, error |-> NoError]

StartState ==
    /\ pc = "start"
    /\ df = NoFrame
    /\ load_error = NoError
    /\ de_anza_courses = NoFrame
    /\ selected_dept = Null
    /\ selected_course = Null
    /\ current_results = NoFrame
    /\ results_count = Unbuilt
    /\ table = <<>>
    /\ dept_items = <<>>
    /\ course_items = <<>>
    /\ info = [dept |-> <<"", <<>> >>, course |-> <<"", <<>> >>]
    /\ course_numbers = <<>>
    /\ found = NoSearch

Init == file \in AppFiles /\ StartState

\* EquivalencyApp(): load_data, then setup_gui builds the widgets
Construct ==
    /\ pc = "start"
    /\ pc' = "constructed"
    /\ LET r == load_data(file)
       IN  /\ df' = IF r.ok THEN Frame(r.df) ELSE NoFrame
           /\ load_error' = IF r.ok THEN NoError ELSE r.error
           /\ results_count' = IF r.ok THEN READY
                               ELSE [kind |-> "load_error", cids |-> 0, courses |-> 0,
                                     error |-> r.error]
    /\ info' = [dept |-> <<"Dept: ", NoneText>>, course |-> <<"Course: ", NoneText>>]
    /\ UNCHANGED <<file, de_anza_courses, selected_dept, selected_course,
                   current_results, table, dept_items, course_items, course_numbers,
                   found>>

\* Run that builds the index whether or not the load failed
Run_IgnoringLoadError ==
    /\ pc = "constructed"
    /\ pc' = "running"
    /\ de_anza_courses' = Frame(load_de_anza_courses(df.rows))
    /\ dept_items' = populate_departments(load_de_anza_courses(df.rows))
    /\ UNCHANGED <<file, df, load_error, selected_dept, selected_course, current_results,
                   results_count, table, course_items, info, course_numbers, found>>

\* app.run(): the De Anza index and the department list, then the event loop
Run ==
    /\ pc = "constructed"
    /\ pc' = "running"
    /\ IF load_error = NoError
       THEN /\ de_anza_courses' = Frame(load_de_anza_courses(df.rows))
            /\ dept_items' = populate_departments(load_de_anza_courses(df.rows))
       ELSE UNCHANGED <<de_anza_courses, dept_items>>
    /\ UNCHANGED <<file, df, load_error, selected_dept, selected_course, current_results,
                   results_count, table, course_items, info, course_numbers, found>>

\* on_dept_selected(sender, app_data)
on_dept_selected(app_data) ==
    /\ pc = "running"
    /\ selected_dept' = app_data
    /\ selected_course' = Null
    /\ info' = [dept |-> <<"Department: ", app_data>>, course |-> <<"Course: ", NoneText>>]
    /\ IF de_anza_courses.set
       THEN /\ course_items' = populate_courses(de_anza_courses.rows, app_data)
            /\ course_numbers' = course_display_to_number(de_anza_courses.rows, app_data)
       ELSE UNCHANGED <<course_items, course_numbers>>
    /\ LET shown == show_department_courses(app_data)
       IN  /\ current_results' = shown.current_results
           /\ results_count' = shown.results_count
           /\ table' = shown.table
    /\ UNCHANGED <<file, pc, df, load_error, de_anza_courses, dept_items, found>>

\* on_course_selected(sender, app_data)
on_course_selected(app_data) ==
    /\ pc = "running"
    /\ IF selected_dept = Null \/ selected_dept = <<>>
       THEN UNCHANGED <<selected_course, info, current_results, results_count, table>>
       ELSE /\ selected_course' = app_data
            /\ LET all == Strip(app_data) = <<>>
                   shown == IF all THEN show_department_courses(selected_dept)
                            ELSE show_equivalencies(selected_dept,
                                                    ResolveCourseNumber(app_data))
               IN  /\ info' = [info EXCEPT !.course =
                                   <<"Course: ", IF all THEN AllCoursesText ELSE app_data>>]
                   /\ current_results' = shown.current_results
                   /\ results_count' = shown.results_count
                   /\ table' = shown.table
    /\ UNCHANGED <<file, pc, df, load_error, de_anza_courses, selected_dept, dept_items,
                   course_items, course_numbers, found>>

\* clear_selection that resets the department and leaves the course
clear_selection_DeptOnly ==
    /\ pc = "running"
    /\ selected_dept' = Null
    /\ course_items' = <<>>
    /\ info' = [dept |-> <<"Department: ", NoneText>>, course |-> <<"Course: ", NoneText>>]
    /\ table' = <<>>
    /\ results_count' = READY
    /\ UNCHANGED <<file, pc, df, load_error, de_anza_courses, selected_course,
                   current_results, dept_items, course_numbers, found>>

\* clear_selection()
clear_selection ==
    /\ pc = "running"
    /\ selected_dept' = Null
    /\ selected_course' = Null
    /\ course_items' = <<>>
    /\ info' = [dept |-> <<"Department: ", NoneText>>, course |-> <<"Course: ", NoneText>>]
    /\ table' = <<>>
    /\ results_count' = READY
    /\ UNCHANGED <<file, pc, df, load_error, de_anza_courses, current_results, dept_items,
                   course_numbers, found>>

Next ==
    \/ Construct
    \/ Run
    \/ \E d \in Range(dept_items) \cup {OtherDept} : on_dept_selected(d)
    \/ \E c \in Range(course_items) \cup OtherCourses : on_course_selected(c)
    \/ clear_selection

Spec == Init /\ [][Next]_vars

(***************************************************************************)
(* The search driver: benchmark.py loads the file and calls smart_search   *)
(***************************************************************************)
SearchInit == file \in SearchFiles /\ StartState

\* df = load_data(DATA_FILE); a CidCsvError ends the program
benchmark_load ==
    /\ pc = "start"
    /\ LET r == load_data(file)
       IN  /\ pc' = IF r.ok THEN "loaded" ELSE "failed"
           /\ df' = IF r.ok THEN Frame(r.df) ELSE NoFrame
           /\ load_error' = IF r.ok THEN NoError ELSE r.error
    /\ UNCHANGED <<file, de_anza_courses, selected_dept, selected_course, current_results,
                   results_count, table, dept_items, course_items, info, course_numbers,
                   found>>

\* result = smart_search(df, query), in the loop over the queries
benchmark_search(query) ==
    /\ pc = "loaded"
    /\ pc' = "returned"
    /\ \E r \in smart_search(df.rows, query) :
           found' = [query |-> query, path |-> r.path, rows |-> r.rows,
                     institution_keywords |-> r.institution_keywords,
                     dept_keywords |-> r.dept_keywords,
                     title_keywords |-> r.title_keywords]
    /\ UNCHANGED <<file, df, load_error, de_anza_courses, selected_dept,
                   selected_course, current_results, results_count, table, dept_items,
                   course_items, info, course_numbers>>

\* the result is printed and the loop goes on to its next query
benchmark_print ==
    /\ pc = "returned"
    /\ pc' = "loaded"
    /\ found' = NoSearch
    /\ UNCHANGED <<file, df, load_error, de_anza_courses, selected_dept,
                   selected_course, current_results, results_count, table, dept_items,
                   course_items, info, course_numbers>>

SearchNext ==
    \/ benchmark_load
    \/ \E q \in Queries : benchmark_search(q)
    \/ benchmark_print

SearchSpec == SearchInit /\ [][SearchNext]_vars

(***************************************************************************)
(* Properties                                                              *)
(***************************************************************************)
\* every home-institution row stands before every other row
HomeFirst(rows) ==
    \A i, j \in 1..Len(rows) : is_de_anza(rows[i]) /\ ~is_de_anza(rows[j]) => i < j

\* no two rows agree on the five core columns
NoDuplicateRows(rows) ==
    \A i, j \in 1..Len(rows) :
        i # j => \/ rows[i].cid # rows[j].cid
                 \/ rows[i].descriptor # rows[j].descriptor
                 \/ rows[i].institution # rows[j].institution
                 \/ rows[i].local_dept # rows[j].local_dept
                 \/ rows[i].local_title # rows[j].local_title

Searched == pc = "returned"

\* C1: in every value smart_search returns, on each of its return paths, every
\* home-institution row stands before every row of another institution.
C1_HomeRowsFirst == Searched => HomeFirst(found.rows)

\* C2: no value smart_search returns holds two rows that agree on all five core
\* columns, the C-ID fast path included.
C2_NoDuplicates == Searched => NoDuplicateRows(found.rows)

\* the filtered set of the call that has returned, and its C-IDs
FoundFiltered == Filtered(df.rows, Strip(found.query))

FoundCids == CidsOf(FoundFiltered) \ {Null}

\* C3: when a query without an institution keyword leaves a non-empty filtered set,
\* the value returned holds every row of the dataset whose C-ID is the C-ID of a
\* filtered row, whether or not that row passed the filters itself.
C3_Expansion ==
    Searched /\ found.path = "expanded" =>
        LET cids == FoundCids
        IN  \A i \in 1..Len(df.rows) :
                df.rows[i].cid \in cids => df.rows[i] \in Range(found.rows)

\* C3 witness: a returned row that shares a C-ID with the filtered set and did not
\* pass the filters
C3_Witness ==
    /\ Searched
    /\ found.path = "expanded"
    /\ \E i \in 1..Len(found.rows) :
           /\ found.rows[i].cid \in FoundCids
           /\ found.rows[i] \notin Range(FoundFiltered)

\* the spellings of a C-ID query: department code in any letter case, a run of spaces
\* and hyphens, the number
Separators == { <<" ">>, <<"-">>, <<" ", " ">>, <<" ", "-", " ">>, <<"-", "-">> }

Spellings(D, N) ==
    {code \o sep \o N : code \in {D, [i \in 1..Len(D) |-> LowerLetters[Ord[D[i]] - Ord["A"] + 1]]},
                        sep \in Separators}

ACCT == <<"A","C","C","T">>

N110 == <<"1","1","0">>

\* some C-ID of the dataset contains "D N"
HasCid(D, N) ==
    \E i \in 1..Len(df.rows) : Contains(FillNull(df.rows[i].cid), D \o <<" ">> \o N)

\* the values smart_search can return for a query on the loaded dataset
Results(q) == {r.rows : r \in smart_search(df.rows, q)}

\* C4: when a C-ID of the dataset contains "ACCT 110", every spelling of the query
\* (ACCT 110, acct-110, ACCT  110, ...) returns the very rows the call returned.
C4_SeparatorsAgree ==
    Searched /\ found.query \in Spellings(ACCT, N110) /\ HasCid(ACCT, N110) =>
        \A q \in Spellings(ACCT, N110) : Results(q) = {found.rows}

\* C4 witness: a hyphenated lower-case spelling has returned rows
C4_Witness ==
    /\ Searched
    /\ found.query = <<"a","c","c","t","-","1","1","0">>
    /\ HasCid(ACCT, N110)
    /\ found.rows # <<>>

InGeneralPath == Searched /\ found.path \in {"empty", "institution", "expanded"}

\* the number of lists among the three that hold a keyword
ListsHolding(kw) ==
    Cardinality({k \in 1..3 : kw \in Range(<<found.institution_keywords,
                                              found.dept_keywords,
                                              found.title_keywords>>[k])})

\* C5: in the general path every keyword of the query is in exactly one of the
\* institution, department and title lists, so none is left out of the filters.
C5_EveryKeywordClassified ==
    InGeneralPath =>
        \A kw \in Range(keywords(Strip(found.query))) : ListsHolding(kw) = 1

\* the working set the department/title test counts in: the rows that pass every
\* institution keyword of the call
FoundWorkingSet == FilterAll(df.rows, found.institution_keywords, "institution")

ART == <<"A","R","T">>

\* C6: a keyword that is no institution keyword, is 2-5 capitals and no stopword is a
\* department keyword iff deptCount > 0 and titleCount < deptCount * 10, counted in
\* the institution-filtered working set; failing that it is a title keyword when
\* titleCount > 0.  deptCount = 1 with titleCount = 10 or 50 gives a title keyword.
C6_RatioRule ==
    InGeneralPath =>
        \A kw \in Range(keywords(Strip(found.query))) \ Range(found.institution_keywords) :
            dept_pattern(kw) /\ kw \notin common_words =>
                LET dc == dept_count(FoundWorkingSet, kw)
                    tc == title_count(FoundWorkingSet, kw)
                    isDept == kw \in Range(found.dept_keywords)
                    isTitle == kw \in Range(found.title_keywords)
                IN  /\ isDept <=> (dc > 0 /\ tc < dc * 10)
                    /\ ~(dc > 0 /\ tc < dc * 10) /\ tc > 0 => isTitle /\ ~isDept
                    /\ dc = 1 /\ tc \in {10, 50} => isTitle /\ ~isDept

\* C6 witness: ART is a department code in 1 row and part of the title in 50, and the
\* call took it as a title keyword
C6_Witness ==
    /\ InGeneralPath
    /\ found.query = ART
    /\ dept_count(FoundWorkingSet, ART) = 1
    /\ title_count(FoundWorkingSet, ART) = 50
    /\ found.title_keywords = <<ART>>
    /\ found.dept_keywords = <<>>

Constructed == pc # "start"

MissingColumns == AllColumns \ file.columns

\* C7 as stated: an absent required column always gives the error that names the
\* absent columns, also when the file has no data row.
C7_MissingAlwaysNamed ==
    Constructed /\ file.exists /\ file.parses /\ MissingColumns # {} =>
        /\ load_error.kind = "missing_columns"
        /\ Range(load_error.missing) = MissingColumns

\* C7 (amended): load_data succeeds exactly when the file exists, parses, has a data
\* row and has the five required columns; a file with a header and no data row gives
\* the "is empty" error; a file with a data row and an absent required column gives the
\* error whose Missing list is exactly the absent required columns, each once.
C7_LoadOutcome ==
    Constructed =>
        /\ df.set <=> /\ file.exists
                      /\ file.parses
                      /\ Len(file.rows) >= 1
                      /\ MissingColumns = {}
        /\ df.set <=> load_error = NoError
        /\ file.exists /\ file.parses /\ file.rows = <<>> => load_error.kind = "empty"
        /\ file.exists /\ file.parses /\ file.rows # <<>> /\ MissingColumns # {} =>
               /\ load_error.kind = "missing_columns"
               /\ Range(load_error.missing) = MissingColumns
               /\ Len(load_error.missing) = Cardinality(MissingColumns)

\* C7 witness: a file with data that lacks only the Institution column was refused with
\* exactly that name
C7_Witness ==
    /\ Constructed
    /\ file.rows # <<>>
    /\ MissingColumns = {"Institution"}
    /\ ~df.set
    /\ load_error.kind = "missing_columns"
    /\ load_error.missing = <<"Institution">>

\* a course line other than the blank one is selected: on_course_selected has run
\* show_equivalencies for the number it resolved the line to
CourseChosen ==
    /\ pc = "running"
    /\ de_anza_courses.set
    /\ selected_course # Null
    /\ Strip(selected_course) # <<>>

ChosenNumber == ResolveCourseNumber(selected_course)

HasPrefix(x, prefix) == Len(x) >= Len(prefix) /\ SubSeq(x, 1, Len(prefix)) = prefix

\* the rows of the home index that the claim says equivalentsFor(department, n) matches
HomeMatches(department, n) ==
    {i \in 1..Len(de_anza_courses.rows) :
        /\ de_anza_courses.rows[i].Dept = department
        /\ \/ de_anza_courses.rows[i].Number = n
           \/ HasPrefix(de_anza_courses.rows[i].Number, n \o <<" ">>)
           \/ HasPrefix(de_anza_courses.rows[i].Number, n \o <<"+">>)}

BIOL == <<"B","I","O","L">>

\* C8: show_equivalencies(department, n) matches a row of the home index iff its
\* department equals department and its number is n, or starts with n and a space, or
\* starts with n and "+": it reports "Course not found" iff no row does, and otherwise
\* shows the rows that carry the C-IDs of exactly those rows.
C8_NumberMatching ==
    CourseChosen =>
        LET M == HomeMatches(selected_dept, ChosenNumber)
        IN  /\ results_count.kind = "Course not found" <=> M = {}
            /\ M # {} =>
                   /\ current_results.set
                   /\ CidsOf(current_results.rows) = {de_anza_courses.rows[i].cid : i \in M}

\* C8 witness: with 6A chosen in BIOL, the home rows numbered "6A + BIOL 6C", "6AB" and
\* "16A" are in the index and only the C-ID of the first is shown
C8_Witness ==
    /\ CourseChosen
    /\ selected_dept = BIOL
    /\ ChosenNumber = <<"6","A">>
    /\ {<<"6","A"," ","+"," ","B","I","O","L"," ","6","C">>, <<"6","A","B">>, <<"1","6","A">>}
           \subseteq {de_anza_courses.rows[i].Number : i \in 1..Len(de_anza_courses.rows)}
    /\ CidsOf(current_results.rows) = {<<"B","I","O","L"," ","1","9","0">>}
    /\ \E i \in 1..Len(current_results.rows) :
           current_results.rows[i].local_dept = <<"B","I","O","L"," ","6","A"," ","+"," ","B","I","O","L"," ","6","C">>

\* C9: the rows a department or course selection shows are every row of the dataset
\* that shares a C-ID with them, all home-institution rows first and the dataset's
\* order kept inside each part.
C9_SelectionHomeFirst ==
    pc = "running" /\ current_results.set =>
        /\ HomeFirst(current_results.rows)
        /\ current_results.rows
               = DeAnzaFirst(RowsWithCids(df.rows, CidsOf(current_results.rows)))

\* a department is selected and its course list is built
DeptChosen == pc = "running" /\ de_anza_courses.set /\ selected_dept # Null

\* the course numbers of the list, in its order, without the blank first line
ListedNumbers ==
    [k \in 1..(Len(course_items) - 1) |-> course_numbers[course_items[k + 1]]]

\* the distinct first numbers of the selected department's courses
DeptFirstNumbers ==
    {first_course_number(de_anza_courses.rows[i].Number) :
        i \in {j \in 1..Len(de_anza_courses.rows) :
                  de_anza_courses.rows[j].Dept = selected_dept}}

\* (number, suffix) of a is at most that of b
KeyAtMost(a, b) ==
    \/ natural_sort_key(a).num < natural_sort_key(b).num
    \/ /\ natural_sort_key(a).num = natural_sort_key(b).num
       /\ ~StrLess(natural_sort_key(b).suffix, natural_sort_key(a).suffix)

NaturalExample == << <<"1">>, <<"1","A">>, <<"2">>, <<"6","A">>, <<"1","0">>, <<"4","0","A">> >>

\* C10: the course list of the selected department has exactly one line per distinct
\* first course number and is ascending by (leading digits as an integer, rest as
\* text); the numbers 10, 1A, 2, 1, 40A, 6A are listed as 1, 1A, 2, 6A, 10, 40A.
C10_CourseList ==
    DeptChosen =>
        /\ Range(ListedNumbers) = DeptFirstNumbers
        /\ Len(ListedNumbers) = Cardinality(DeptFirstNumbers)
        /\ \A i, j \in 1..Len(ListedNumbers) :
               i < j => KeyAtMost(ListedNumbers[i], ListedNumbers[j])
        /\ DeptFirstNumbers = Range(NaturalExample) => ListedNumbers = NaturalExample

\* C10 witness: the courses 10, 1A, 2, 1, 40A, 6A of the file, in that order, are listed
\* as 1, 1A, 2, 6A, 10, 40A
C10_Witness ==
    /\ DeptChosen
    /\ [i \in 1..Len(de_anza_courses.rows) |-> de_anza_courses.rows[i].Number] = MathExample
    /\ ListedNumbers = NaturalExample

\* C11: a second call smart_search(df, q) returns the rows of the first call in the
\* same order, also when the value passes through the final unique().
C11_SameRowsSameOrder ==
    Searched => \A r \in smart_search(df.rows, found.query) : r.rows = found.rows

\* C12: when a query without an institution keyword leaves a filtered set in which
\* some row has an empty C-ID, the value returned holds rows of the filtered set only.
C12_NoExpansionOnEmptyId ==
    Searched /\ found.path = "expanded" /\ Null \in CidsOf(FoundFiltered) =>
        Range(found.rows) \subseteq Range(FoundFiltered)

\* the keywords of the call that has returned
FoundKeywords == Split(Upper(Strip(found.query)))

\* the upper-cased institution of a row contains the keyword
InInstitution(row, kw) == Contains(Upper(FillNull(row.institution)), kw)

FOOTHILL == <<"F","O","O","T","H","I","L","L">>

ANZA == <<"A","N","Z","A">>

\* C13: in the general path a keyword is an institution keyword iff the upper-cased
\* institution of some row of the whole dataset contains it; such a keyword is in
\* neither the department nor the title list, every returned row passes it, and when
\* no row passes all institution keywords the value returned is empty.
C13_InstitutionFirst ==
    InGeneralPath =>
        /\ \A kw \in Range(FoundKeywords) :
               kw \in Range(found.institution_keywords)
                   <=> \E i \in 1..Len(df.rows) : InInstitution(df.rows[i], kw)
        /\ Range(found.institution_keywords)
               \cap (Range(found.dept_keywords) \cup Range(found.title_keywords)) = {}
        /\ \A kw \in Range(found.institution_keywords) :
               \A i \in 1..Len(found.rows) : InInstitution(found.rows[i], kw)
        /\ (~\E i \in 1..Len(df.rows) :
                \A kw \in Range(found.institution_keywords) : InInstitution(df.rows[i], kw))
               => found.rows = <<>>

\* C13 witness: FOOTHILL and ANZA (four capitals, the shape of a department code) are
\* each in the institution of some row and in no row together; both are institution
\* keywords only and the call returned no rows
C13_Witness ==
    /\ InGeneralPath
    /\ FoundKeywords = <<FOOTHILL, ANZA>>
    /\ dept_pattern(ANZA)
    /\ \E i \in 1..Len(df.rows) : InInstitution(df.rows[i], FOOTHILL)
    /\ \E i \in 1..Len(df.rows) : InInstitution(df.rows[i], ANZA)
    /\ found.institution_keywords = <<FOOTHILL, ANZA>>
    /\ found.dept_keywords = <<>>
    /\ found.title_keywords = <<>>
    /\ found.rows = <<>>

\* the groups of the fast-path shape in the query of the call that has returned
FoundShape == cid_pattern(Upper(Strip(found.query)))

\* the rows of the dataset whose C-ID contains "DEPT NUMBER"
DirectMatch ==
    SelectSeq(df.rows, LAMBDA r : Contains(Upper(FillNull(r.cid)),
                                           FoundShape.dept_code \o <<" ">> \o FoundShape.cid_number))

\* the rows of the direct match in which every extra word is in the upper-cased
\* institution or in the upper-cased title
DirectMatchWithExtras ==
    SelectSeq(DirectMatch,
              LAMBDA r : \A w \in Range(Split(FoundShape.extra)) :
                             \/ InInstitution(r, w)
                             \/ Contains(Upper(FillNull(r.local_title)), w))

\* how many times a row stands in a sequence of rows
Occurrences(rows, row) == Cardinality({i \in 1..Len(rows) : rows[i] = row})

\* C14: for a query of the fast-path shape, a non-empty direct match on the C-ID
\* returns exactly the matched rows that pass every extra word (none, if none does,
\* and the general path is not tried); an empty direct match returns what the general
\* path returns for the query.
C14_FastPath ==
    Searched /\ Len(Strip(found.query)) >= MIN_SEARCH_CHARS /\ FoundShape.matched =>
        IF DirectMatch # <<>>
        THEN /\ found.path = "cid"
             /\ Len(found.rows) = Len(DirectMatchWithExtras)
             /\ \A i \in 1..Len(DirectMatchWithExtras) :
                    Occurrences(found.rows, DirectMatchWithExtras[i])
                        = Occurrences(DirectMatchWithExtras, DirectMatchWithExtras[i])
        ELSE /\ found.path # "cid"
             /\ found.rows \in {r.rows : r \in general_path(df.rows, Strip(found.query))}

\* C14 witness: "Acct - 110 foothill" matched the C-ID of a De Anza and of a Foothill
\* row and returned the Foothill row alone
C14_Witness ==
    /\ Searched
    /\ FoundShape.matched
    /\ FoundShape.extra = FOOTHILL
    /\ \E i, j \in 1..Len(DirectMatch) :
           is_de_anza(DirectMatch[i]) /\ ~is_de_anza(DirectMatch[j])
    /\ found.rows # <<>>
    /\ \A i \in 1..Len(found.rows) : ~is_de_anza(found.rows[i])

\* the words of the query of the call that has returned, as typed
FoundWords == Split(Strip(found.query))

\* the words in the order p, one space between them
Reordered(words, p) ==
    LET join[k \in 0..Len(words)] ==
            IF k = 0 THEN <<>>
            ELSE IF k = 1 THEN words[p[1]]
            ELSE join[k - 1] \o <<" ">> \o words[p[k]]
    IN  join[Len(words)]

\* the sets of rows smart_search can return for a query on the loaded dataset
RowSets(q) == {Range(r.rows) : r \in smart_search(df.rows, q)}

\* C15: for a query that is not of the fast-path shape, every reordering of its words
\* that is not of that shape either returns the same set of rows.
C15_WordOrder ==
    InGeneralPath /\ ~FoundShape.matched =>
        \A p \in Permutations(1..Len(FoundWords)) :
            ~cid_pattern(Upper(Reordered(FoundWords, p))).matched =>
                RowSets(Reordered(FoundWords, p)) = {Range(found.rows)}

\* C15 witness: a query of a title word, an institution word and a department word,
\* each taken as such, has returned rows
C15_Witness ==
    /\ InGeneralPath
    /\ ~FoundShape.matched
    /\ Len(FoundWords) = 3
    /\ found.institution_keywords = <<FOOTHILL>>
    /\ Len(found.dept_keywords) = 1
    /\ Len(found.title_keywords) = 1
    /\ found.rows # <<>>

\* the values a listbox callback can be handed in the current state
DeptEvents == Range(dept_items) \cup {OtherDept}

CourseEvents == Range(course_items) \cup OtherCourses

\* what the claim says of one step of the selection handlers
SelectionStep ==
    /\ \A d \in DeptEvents :
           on_dept_selected(d) => (selected_dept' = d /\ selected_course' = Null)
    /\ clear_selection => (selected_dept' = Null /\ selected_course' = Null)
    /\ \A c \in CourseEvents :
           (selected_dept = Null /\ on_course_selected(c)) => UNCHANGED vars
    /\ (selected_dept = Null /\ selected_dept' = Null) =>
           (selected_course' = Null /\ current_results' = current_results)

\* C16: a course is selected only while a department is selected; a department
\* selection leaves no course selected, clear_selection leaves neither selected, and a
\* course selection that arrives while no department is selected changes nothing.
C16_CourseNeedsDept ==
    /\ [](selected_course # Null => selected_dept # Null)
    /\ [][SelectionStep]_vars

\* C16 witness: a course is selected in a selected department and its rows are shown
C16_Witness ==
    /\ pc = "running"
    /\ selected_dept # Null
    /\ selected_course # Null
    /\ current_results.set

\* the load failed in the constructor
LoadFailed == Constructed /\ load_error # NoError

\* C17: after a failed load the dataset and the De Anza index stay unset, no result is
\* ever stored and the results table stays empty, whatever is selected or cleared.
C17_FailedLoadShowsNothing ==
    LoadFailed =>
        /\ ~df.set
        /\ ~de_anza_courses.set
        /\ ~current_results.set
        /\ table = <<>>

\* C17 witness: after a failed load the application is running and Clear Selection
\* has been pressed
C17_Witness ==
    /\ LoadFailed
    /\ pc = "running"
    /\ results_count = READY
    /\ ~current_results.set
    /\ table = <<>>

\* C18: after a failed load the status line shows the load error, and goes on showing
\* it after every selection and clear_selection.
C18_LoadErrorStaysShown ==
    LoadFailed => results_count.kind = "load_error" /\ results_count.error = load_error

====
